---- MODULE Spec2Model ----
(***************************************************************************)
(* A model of ellie (schneiderfelipe/ellie): the streaming assembler and  *)
(* the conversation loop of src/main.rs; the approval-gated provider       *)
(* executor, the loading of functions.toml, the specifications of the      *)
(* providers with their merge, and try_compact_json of src/functions.rs.   *)
(*                                                                         *)
(* Text is a sequence of one-character strings.  The JSON texts the model  *)
(* feeds to serde_json are written over digits, brackets, commas and       *)
(* whitespace; every other character makes a text that is not JSON.        *)
(***************************************************************************)
EXTENDS Integers, Sequences, FiniteSets

(***************************************************************************)
(* Bounds of the model.                                                    *)
(***************************************************************************)
\* fragments (choices) the streamed reply delivers at most, when
\* create_assistant_message is run alone
MaxFragments == 3
\* fragments each streamed reply delivers at most, in the conversation loop
MaxReplyFragments == 2
\* requests the conversation loop sends at most
MaxRequests == 3
\* calls of Functions::call one run makes at most
MaxCalls == 2
\* characters of the texts try_compact_json is given, when it is run alone
MaxTextLen == 4
\* times try_compact_json is applied to what it returned, the first included
MaxApplications == 2
\* [[provider]] tables functions.toml holds at most
MaxProviders == 3
\* [[function]] tables functions.toml holds at most
MaxOverrides == 2

(***************************************************************************)
(* Text: str::trim                                                         *)
(***************************************************************************)
Whitespace == {" ", "\n"}

Digits == {"0", "1", "2", "3", "4", "5", "6", "7", "8", "9"}

RECURSIVE TrimStart(_)
TrimStart(s) ==
    IF s # <<>> /\ Head(s) \in Whitespace THEN TrimStart(Tail(s)) ELSE s

RECURSIVE TrimEnd(_)
TrimEnd(s) ==
    IF s # <<>> /\ s[Len(s)] \in Whitespace
    THEN TrimEnd(SubSeq(s, 1, Len(s) - 1))
    ELSE s

Trim(s) == TrimEnd(TrimStart(s))

(***************************************************************************)
(* serde_json::from_str::<Value> and serde_json::to_string, on the JSON    *)
(* of numbers and arrays.  A parse result is [ok, val, pos]: pos is the    *)
(* first position not consumed.                                            *)
(***************************************************************************)
NoValue == [t |-> "none"]

ParseFail == [ok |-> FALSE, val |-> NoValue, pos |-> 0]

RECURSIVE SkipWhitespace(_, _)
SkipWhitespace(s, i) ==
    IF i <= Len(s) /\ s[i] \in Whitespace THEN SkipWhitespace(s, i + 1) ELSE i

DigitValue(c) ==
    CASE c = "0" -> 0 [] c = "1" -> 1 [] c = "2" -> 2 [] c = "3" -> 3
      [] c = "4" -> 4 [] c = "5" -> 5 [] c = "6" -> 6 [] c = "7" -> 7
      [] c = "8" -> 8 [] c = "9" -> 9

DigitChar(d) ==
    CASE d = 0 -> "0" [] d = 1 -> "1" [] d = 2 -> "2" [] d = 3 -> "3"
      [] d = 4 -> "4" [] d = 5 -> "5" [] d = 6 -> "6" [] d = 7 -> "7"
      [] d = 8 -> "8" [] d = 9 -> "9"

\* the digits from position i on, read as an unsigned integer with value n so far
RECURSIVE ParseDigits(_, _, _)
ParseDigits(s, i, n) ==
    IF i <= Len(s) /\ s[i] \in Digits
    THEN ParseDigits(s, i + 1, n * 10 + DigitValue(s[i]))
    ELSE [ok |-> TRUE, val |-> [t |-> "num", n |-> n], pos |-> i]

\* a number starting at the digit s[i]: a leading 0 stands alone
ParseNumber(s, i) ==
    IF s[i] = "0"
    THEN IF i + 1 <= Len(s) /\ s[i + 1] \in Digits
         THEN ParseFail
         ELSE [ok |-> TRUE, val |-> [t |-> "num", n |-> 0], pos |-> i + 1]
    ELSE ParseDigits(s, i, 0)

RECURSIVE ParseValue(_, _)
RECURSIVE ParseElements(_, _, _)

\* a value, after optional whitespace, from position i on
ParseValue(s, i) ==
    LET j == SkipWhitespace(s, i) IN
    IF j > Len(s) THEN ParseFail
    ELSE IF s[j] \in Digits THEN ParseNumber(s, j)
    ELSE IF s[j] = "["
         THEN LET k == SkipWhitespace(s, j + 1) IN
              IF k <= Len(s) /\ s[k] = "]"
              THEN [ok |-> TRUE, val |-> [t |-> "arr", items |-> <<>>], pos |-> k + 1]
              ELSE ParseElements(s, j + 1, <<>>)
    ELSE ParseFail

\* the elements of an array whose next element starts at position i
ParseElements(s, i, items) ==
    LET e == ParseValue(s, i) IN
    IF ~e.ok THEN ParseFail
    ELSE LET k == SkipWhitespace(s, e.pos) IN
         IF k > Len(s) THEN ParseFail
         ELSE IF s[k] = ","
              THEN ParseElements(s, k + 1, Append(items, e.val))
         ELSE IF s[k] = "]"
              THEN [ok |-> TRUE,
                    val |-> [t |-> "arr", items |-> Append(items, e.val)],
                    pos |-> k + 1]
         ELSE ParseFail

\* serde_json::from_str: one value, then only whitespace
from_str(s) ==
    LET r == ParseValue(s, 1) IN
    IF r.ok /\ SkipWhitespace(s, r.pos) > Len(s) THEN r ELSE ParseFail

RECURSIVE NumberToText(_)
NumberToText(n) ==
    IF n < 10 THEN <<DigitChar(n)>>
    ELSE Append(NumberToText(n \div 10), DigitChar(n % 10))

RECURSIVE to_string(_)
RECURSIVE ItemsToText(_)

\* serde_json::to_string: the compact form
to_string(v) ==
    IF v.t = "num" THEN NumberToText(v.n)
    ELSE <<"[">> \o ItemsToText(v.items) \o <<"]">>

ItemsToText(items) ==
    IF items = <<>> THEN <<>>
    ELSE IF Len(items) = 1 THEN to_string(items[1])
    ELSE to_string(items[1]) \o <<",">> \o ItemsToText(Tail(items))

\* a slip: a text that is not JSON is given back as it came
try_compact_json_untrimmed(maybe_json) ==
    LET parsed == from_str(Trim(maybe_json))
    IN IF parsed.ok THEN to_string(parsed.val) ELSE maybe_json

\* try_compact_json (main.rs, and the same in functions.rs): trim, then the
\* compact JSON or the trimmed text
try_compact_json(maybe_json) ==
    LET trimmed == Trim(maybe_json)
        parsed == from_str(trimmed)
    IN IF parsed.ok THEN to_string(parsed.val) ELSE trimmed

(***************************************************************************)
(* Option values and messages.                                             *)
(***************************************************************************)
Some(x) == [some |-> TRUE, v |-> x]

\* an absent text (Option<String>)
NoText == [some |-> FALSE, v |-> <<>>]

\* an absent role or finish reason
NoTag == [some |-> FALSE, v |-> ""]

\* an absent function call (of a message) or function call delta (of a fragment)
NoCall == [some |-> FALSE, name |-> <<>>, arguments |-> <<>>]

NoCallDelta == [some |-> FALSE, name |-> NoText, arguments |-> NoText]

CallDelta(name, arguments) == [some |-> TRUE, name |-> name, arguments |-> arguments]

\* one choice of a streamed chunk
Fragment(role, content, function_call, finish_reason) ==
    [role |-> role, content |-> content, function_call |-> function_call,
     finish_reason |-> finish_reason]

\* the value of a message variable that holds no message
NoMessage == [role |-> "none", name |-> NoText, content |-> NoText, function_call |-> NoCall]

(***************************************************************************)
(* The state.                                                              *)
(***************************************************************************)
VARIABLES
    \* create_assistant_message (main.rs)
    asm_state,                       \* idle | running | returned | failed | panicked
    content_buffer,
    function_call_name,
    function_call_arguments_buffer,
    stdout,                          \* what the process has written to standard output
    choices,                         \* the choices of the current chunk not yet processed
    seen,                            \* the fragments processed in this invocation, in order
    received,                        \* the number of fragments the stream has delivered
    stream_state,                    \* open | error | ended: what response.next() yielded last
    assistant_message,               \* the message the invocation returned
    produced,                        \* the number of messages the invocation returned
    \* main (main.rs)
    main_pc,                         \* start | loop | awaiting | exit_ok | exit_err | panicked
    new_messages,
    model,                           \* the model of the request of this iteration
    messages_tokens,                 \* the tokens counted for the messages of that request
    requests,                        \* the number of requests sent to the remote service
    \* Functions::call (functions.rs)
    provider,                        \* Functions.provider after load
    call_pc,                         \* idle | prompting | spawning | returned | panicked
    current,                         \* the provider, name and arguments of the call
    answer,                          \* what the confirmation prompt of the call answered
    events,                          \* the observable effects of the call, in order
    response,                        \* the result of the call
    exit_status,                     \* the exit status of the process the call ran
    captured,                        \* what read() captured of its output and error
    calls,                           \* the number of calls made
    \* Functions::load (functions.rs)
    config,                          \* the deserialized functions.toml
    function,                        \* Functions.function after load
    log,                             \* the warnings logged, in order
    load_pc,                         \* none | start | loaded | failed
    \* Functions::specifications (functions.rs)
    spec_index,                      \* the providers the iterator has gone through
    report,                          \* what the process of the last provider printed
    spec,                            \* the item the iterator yielded last
    \* try_compact_json applied over and over
    norm_input,                      \* the text given first
    norm_outputs                     \* what each application returned, in order

asmVars == <<asm_state, content_buffer, function_call_name,
             function_call_arguments_buffer, stdout, choices, seen, received,
             stream_state, assistant_message, produced>>

mainVars == <<main_pc, new_messages, model, messages_tokens, requests>>

callVars == <<provider, call_pc, current, answer, events, response, exit_status,
             captured, calls>>

loadVars == <<config, function, log, load_pc>>

specsVars == <<spec_index, report, spec>>

normVars == <<norm_input, norm_outputs>>

restVars == <<loadVars, specsVars, normVars>>

vars == <<asmVars, mainVars, callVars, restVars>>

(***************************************************************************)
(* What the remote service can stream.                                     *)
(***************************************************************************)
\* choices one chunk carries at most
MaxChoices == 2

ContentDeltas == {<<"a">>, <<" ">>}

NameDeltas == {<<"f">>, <<>>, <<" ", "g">>}

ArgumentDeltas == {<<"[", "1">>, <<",", " ", "1", "]">>, <<" ", "1", " ">>}

FinishReasons == {"stop", "length", "function_call", "content_filter"}

\* a fragment with every field present
FullFragment(finish_reason) ==
    Fragment(Some("assistant"), Some(<<"a">>),
             CallDelta(Some(<<"f">>), Some(<<"1">>)), finish_reason)

Fragments ==
    {Fragment(Some(r), NoText, NoCallDelta, NoTag) : r \in {"assistant", "user"}}
    \cup {Fragment(NoTag, Some(c), NoCallDelta, NoTag) : c \in ContentDeltas}
    \cup {Fragment(NoTag, NoText, CallDelta(Some(n), NoText), NoTag) : n \in NameDeltas}
    \cup {Fragment(NoTag, NoText, CallDelta(NoText, Some(a)), NoTag) : a \in ArgumentDeltas}
    \cup {Fragment(NoTag, NoText, NoCallDelta, Some(r)) : r \in FinishReasons}
    \cup {FullFragment(Some(r)) : r \in {"stop", "function_call"}}

\* the fragments of the replies the conversation loop is run against
MainFragments ==
    { Fragment(NoTag, Some(<<"a">>), NoCallDelta, NoTag),
      Fragment(NoTag, NoText, CallDelta(Some(<<"f">>), Some(<<" ", "1", " ">>)), NoTag),
      Fragment(Some("user"), NoText, NoCallDelta, NoTag),
      Fragment(NoTag, NoText, NoCallDelta, Some("stop")),
      Fragment(NoTag, NoText, NoCallDelta, Some("function_call")) }

Min(a, b) == IF a <= b THEN a ELSE b

\* the chunks of 1..room choices over the fragments F
Chunks(F, room) == UNION {[1..n -> F] : n \in 1..Min(MaxChoices, room)}

(***************************************************************************)
(* create_assistant_message (main.rs): the handling of one choice.         *)
(***************************************************************************)
\* a slip: the role is not checked
RoleAcceptedAny(role) == TRUE

\* the role check
RoleAccepted(role) == ~role.some \/ role.v = "assistant"

\* a slip: the bytes are put before what was written
WriteAllInFront(out, bytes) == bytes \o out

\* stdout.write_all and flush
WriteAll(out, bytes) == out \o bytes

\* content_buffer.write_str, function_call_arguments_buffer.write_str
WriteStr(buffer, text) == buffer \o text

\* a slip: an empty name does not replace function_call_name
TakeNameUnlessEmpty(name, function_call) ==
    IF function_call.some /\ function_call.name.some /\ function_call.name.v # <<>>
    THEN function_call.name.v
    ELSE name

\* a present name replaces function_call_name
TakeName(name, function_call) ==
    IF function_call.some /\ function_call.name.some
    THEN function_call.name.v
    ELSE name

\* present arguments are appended to function_call_arguments_buffer
TakeArguments(buffer, function_call) ==
    IF function_call.some /\ function_call.arguments.some
    THEN WriteStr(buffer, function_call.arguments.v)
    ELSE buffer

\* the arm of the match on the finish reason
FinishKind(finish_reason) ==
    IF finish_reason \in {"stop", "length"} THEN "plain"
    ELSE IF finish_reason = "function_call" THEN "call"
    ELSE "bad"

\* a slip: the message is handed out and the loop goes on
StateAfterFinishGoesOn(kind) == IF kind = "bad" THEN "panicked" ELSE "running"

\* where the function is after the match on the finish reason
StateAfterFinish(kind) == IF kind = "bad" THEN "panicked" ELSE "returned"

\* where the function is when the stream ends: unreachable!("no finish reason")
AfterStreamEnd == "panicked"

\* a slip: the content is not trimmed
PlainMessageUntrimmed(buffer) ==
    [role |-> "assistant", name |-> NoText, content |-> Some(buffer),
     function_call |-> NoCall]

\* the message of a reply that finished with stop or length
PlainMessage(buffer) ==
    [role |-> "assistant", name |-> NoText, content |-> Some(Trim(buffer)),
     function_call |-> NoCall]

create_function_call(name, arguments) ==
    [some |-> TRUE, name |-> Trim(name), arguments |-> try_compact_json(arguments)]

\* a slip: the content received so far is kept in the message
CallMessageKeepsContent(name, arguments) ==
    [role |-> "assistant", name |-> NoText, content |-> Some(Trim(content_buffer)),
     function_call |-> create_function_call(name, arguments)]

\* the message of a reply that finished with function_call
CallMessage(name, arguments) ==
    [role |-> "assistant", name |-> NoText, content |-> Some(<<>>),
     function_call |-> create_function_call(name, arguments)]

(***************************************************************************)
(* create_assistant_message (main.rs): the steps.                          *)
(***************************************************************************)
\* response.next() yields a chunk of the fragments F, of a stream that
\* delivers at most max fragments
ReceiveChunk(F, max) ==
    /\ asm_state = "running"
    /\ choices = <<>>
    /\ received < max
    /\ \E chunk \in Chunks(F, max - received) :
          /\ choices' = chunk
          /\ received' = received + Len(chunk)
    /\ UNCHANGED <<asm_state, content_buffer, function_call_name,
                   function_call_arguments_buffer, stdout, seen, stream_state,
                   assistant_message, produced>>
    /\ UNCHANGED <<mainVars, callVars, restVars>>

\* response.next() yields an error: bail
ReceiveError ==
    /\ asm_state = "running"
    /\ choices = <<>>
    /\ stream_state' = "error"
    /\ asm_state' = "failed"
    /\ UNCHANGED <<content_buffer, function_call_name,
                   function_call_arguments_buffer, stdout, choices, seen, received,
                   assistant_message, produced>>
    /\ UNCHANGED <<mainVars, callVars, restVars>>

\* response.next() yields None: unreachable!("no finish reason")
StreamEnd ==
    /\ asm_state = "running"
    /\ choices = <<>>
    /\ stream_state' = "ended"
    /\ asm_state' = AfterStreamEnd
    /\ UNCHANGED <<content_buffer, function_call_name,
                   function_call_arguments_buffer, stdout, choices, seen, received,
                   assistant_message, produced>>
    /\ UNCHANGED <<mainVars, callVars, restVars>>

\* one pass of the for loop over the choices of the chunk; the broken_at-th
\* write to standard output of the pass fails (0: none does)
ProcessChoice(broken_at) ==
    /\ asm_state = "running"
    /\ choices # <<>>
    /\ LET f == Head(choices)
           content_ok == ~f.content.some \/ broken_at # 1
           out1 == IF f.content.some THEN WriteAll(stdout, f.content.v) ELSE stdout
           buf1 == IF f.content.some
                   THEN WriteStr(content_buffer, f.content.v)
                   ELSE content_buffer
           name1 == TakeName(function_call_name, f.function_call)
           args1 == TakeArguments(function_call_arguments_buffer, f.function_call)
           kind == IF f.finish_reason.some THEN FinishKind(f.finish_reason.v) ELSE "none"
           newline_ok == broken_at # (IF f.content.some THEN 2 ELSE 1)
       IN /\ seen' = Append(seen, f)
          /\ choices' = Tail(choices)
          /\ IF ~RoleAccepted(f.role) \/ ~content_ok
             THEN /\ asm_state' = "failed"
                  /\ UNCHANGED <<content_buffer, function_call_name,
                                 function_call_arguments_buffer, stdout,
                                 assistant_message, produced>>
             ELSE /\ content_buffer' = buf1
                  /\ function_call_name' = name1
                  /\ function_call_arguments_buffer' = args1
                  /\ CASE kind = "none" ->
                            /\ stdout' = out1
                            /\ UNCHANGED <<asm_state, assistant_message, produced>>
                       [] kind = "plain" /\ newline_ok ->
                            /\ stdout' = WriteAll(out1, <<"\n">>)
                            /\ asm_state' = StateAfterFinish(kind)
                            /\ assistant_message' = PlainMessage(buf1)
                            /\ produced' = produced + 1
                       [] kind = "plain" /\ ~newline_ok ->
                            /\ stdout' = out1
                            /\ asm_state' = "failed"
                            /\ UNCHANGED <<assistant_message, produced>>
                       [] kind = "call" ->
                            /\ stdout' = out1
                            /\ asm_state' = StateAfterFinish(kind)
                            /\ assistant_message' = CallMessage(name1, args1)
                            /\ produced' = produced + 1
                       [] kind = "bad" ->
                            /\ stdout' = out1
                            /\ asm_state' = StateAfterFinish(kind)
                            /\ UNCHANGED <<assistant_message, produced>>
    /\ UNCHANGED <<received, stream_state, mainVars, callVars, restVars>>

(***************************************************************************)
(* Initial values.                                                         *)
(***************************************************************************)
\* the locals of create_assistant_message at its entry
AsmEntry ==
    /\ content_buffer = <<>>
    /\ function_call_name = <<>>
    /\ function_call_arguments_buffer = <<>>
    /\ choices = <<>>
    /\ seen = <<>>
    /\ received = 0
    /\ stream_state = "open"
    /\ assistant_message = NoMessage
    /\ produced = 0

\* main is not running
MainIdle ==
    /\ main_pc = "none"
    /\ new_messages = <<>>
    /\ model = "none"
    /\ messages_tokens = 0
    /\ requests = 0

\* no registry is loaded and no call is made
CallIdle ==
    /\ provider = <<>>
    /\ call_pc = "none"
    /\ current = [found |-> FALSE, name |-> <<>>, arguments |-> <<>>, safe |-> FALSE]
    /\ answer = "none"
    /\ events = <<>>
    /\ response = [kind |-> "none", output |-> <<>>]
    /\ exit_status = -1
    /\ captured = <<>>
    /\ calls = 0

\* no configuration is loaded
LoadIdle ==
    /\ config = [provider |-> <<>>, function |-> <<>>]
    /\ function = <<>>
    /\ log = <<>>
    /\ load_pc = "none"

\* specifications() is not iterated
SpecsIdle ==
    /\ spec_index = 0
    /\ report = [kind |-> "none"]
    /\ spec = [kind |-> "none"]

\* try_compact_json is not applied
NormIdle ==
    /\ norm_input = <<>>
    /\ norm_outputs = <<>>

RestIdle == LoadIdle /\ SpecsIdle /\ NormIdle

(***************************************************************************)
(* One invocation of create_assistant_message on a streamed reply.         *)
(***************************************************************************)
InitAsm ==
    /\ asm_state = "running"
    /\ stdout = <<>>
    /\ AsmEntry
    /\ MainIdle
    /\ CallIdle
    /\ RestIdle

NextAsm ==
    \/ ReceiveChunk(Fragments, MaxFragments)
    \/ ReceiveError
    \/ StreamEnd
    \/ \E broken_at \in 0..2 : ProcessChoice(broken_at)

SpecAsm == InitAsm /\ [][NextAsm]_vars

(***************************************************************************)
(* main (main.rs): the conversation loop.                                  *)
(***************************************************************************)
MIN_COMPLETION_TOKENS == 512

\* MODELS, sorted by price
MODELS == <<"gpt-3.5-turbo", "gpt-3.5-turbo-16k", "gpt-4", "gpt-4-32k">>

\* the context length tiktoken_rs knows for each model
ContextSize(m) ==
    CASE m = "gpt-3.5-turbo" -> 4096
      [] m = "gpt-3.5-turbo-16k" -> 16384
      [] m = "gpt-4" -> 8192
      [] m = "gpt-4-32k" -> 32768

\* the token counts tiktoken_rs may report for the messages of a request
TokenCounts == {100, 3584, 3585, 16000, 33000}

\* the texts standard input may hold
Inputs == {<<" ", "q", "\n">>}

\* get_chat_completion_max_tokens: what the context leaves for the completion
MaxCompletionTokens(m, prompt_tokens) ==
    IF ContextSize(m) >= prompt_tokens THEN ContextSize(m) - prompt_tokens ELSE 0

messages_fit_model(m, prompt_tokens) ==
    MaxCompletionTokens(m, prompt_tokens) >= MIN_COMPLETION_TOKENS

\* a slip: the last model of MODELS that fits is taken
choose_model_last(prompt_tokens) ==
    LET fits == {i \in 1..Len(MODELS) : messages_fit_model(MODELS[i], prompt_tokens)}
    IN IF fits = {} THEN "none"
       ELSE MODELS[CHOOSE i \in fits : \A j \in fits : i >= j]

\* the first model of MODELS that fits, "none" when none does
choose_model(prompt_tokens) ==
    LET fits == {i \in 1..Len(MODELS) : messages_fit_model(MODELS[i], prompt_tokens)}
    IN IF fits = {} THEN "none"
       ELSE MODELS[CHOOSE i \in fits : \A j \in fits : i <= j]

\* the fixed JSON text create_function_call_message answers with, written
\* over the characters of the model
FunctionContent == <<"[", "7", "2", ",", " ", "[", "1", ",", " ", "2", "]", "]">>

\* a slip: the message is named after the one function the requests declare
create_function_call_message_fixed_name(name, arguments) ==
    [role |-> "function", name |-> Some(<<"w">>),
     content |-> Some(try_compact_json(FunctionContent)), function_call |-> NoCall]

\* a slip: the name is left out of the message
create_function_call_message_unnamed(name, arguments) ==
    [role |-> "function", name |-> NoText,
     content |-> Some(try_compact_json(FunctionContent)), function_call |-> NoCall]

create_function_call_message(name, arguments) ==
    [role |-> "function", name |-> Some(name),
     content |-> Some(try_compact_json(FunctionContent)), function_call |-> NoCall]

create_user_message(input) ==
    [role |-> "user", name |-> NoText, content |-> Some(Trim(input)),
     function_call |-> NoCall]

\* the arm of the match of update_new_messages the message takes
MessageShape(m) ==
    IF m.role = "assistant" /\ ~m.name.some /\ m.content.some /\ ~m.function_call.some
    THEN "plain"
    ELSE IF /\ m.role = "assistant" /\ ~m.name.some /\ m.function_call.some
            /\ (~m.content.some \/ Trim(m.content.v) = <<>>)
    THEN "call"
    ELSE "bad"

\* what update_new_messages pushes for the message
Pushed(m) ==
    IF MessageShape(m) = "plain" THEN <<m>>
    ELSE IF MessageShape(m) = "call"
    THEN <<m, create_function_call_message(m.function_call.name,
                                           m.function_call.arguments)>>
    ELSE <<>>

\* a slip: the messages are put in front of the conversation
push_front(messages, pushed) == pushed \o messages

\* Vec::push of each message update_new_messages pushes, in order
push(messages, pushed) == messages \o pushed

\* a slip: the role of the first message is looked at
LoopContinuesOnFirst(messages) == messages[1].role # "assistant"

\* the condition of the while loop
LoopContinues(messages) == messages[Len(messages)].role # "assistant"

\* create_assistant_message is left: its locals and the stream are dropped
AsmDropped ==
    /\ content_buffer' = <<>>
    /\ function_call_name' = <<>>
    /\ function_call_arguments_buffer' = <<>>
    /\ choices' = <<>>
    /\ seen' = <<>>
    /\ received' = 0
    /\ stream_state' = "open"
    /\ assistant_message' = NoMessage
    /\ produced' = 0

\* read standard input and build the user message
CreateUserMessage(input, prompt_tokens) ==
    /\ main_pc = "start"
    /\ IF messages_fit_model(MODELS[1], prompt_tokens)
       THEN /\ new_messages' = <<create_user_message(input)>>
            /\ main_pc' = "loop"
       ELSE /\ main_pc' = "exit_err"
            /\ UNCHANGED new_messages
    /\ UNCHANGED <<model, messages_tokens, requests, asmVars, callVars, restVars>>

\* the loop body up to the await on the reply: create_chat_messages,
\* create_request, create_response
SendRequest(prompt_tokens, transport_ok) ==
    /\ main_pc = "loop"
    /\ LoopContinues(new_messages)
    /\ requests < MaxRequests
    /\ model' = choose_model(prompt_tokens)
    /\ messages_tokens' = prompt_tokens
    /\ IF model' = "none"
       THEN /\ main_pc' = "exit_err"
            /\ UNCHANGED <<requests, asmVars>>
       ELSE /\ requests' = requests + 1
            /\ IF transport_ok
               THEN /\ main_pc' = "awaiting"
                    /\ asm_state' = "running"
                    /\ UNCHANGED <<content_buffer, function_call_name,
                                   function_call_arguments_buffer, stdout, choices,
                                   seen, received, stream_state, assistant_message,
                                   produced>>
               ELSE /\ main_pc' = "exit_err"
                    /\ UNCHANGED asmVars
    /\ UNCHANGED <<new_messages, callVars, restVars>>

\* create_assistant_message returned a message: update_new_messages
UpdateNewMessages ==
    /\ main_pc = "awaiting"
    /\ asm_state = "returned"
    /\ asm_state' = "idle"
    /\ IF MessageShape(assistant_message) = "bad"
       THEN /\ main_pc' = "panicked"
            /\ UNCHANGED new_messages
       ELSE /\ new_messages' = push(new_messages, Pushed(assistant_message))
            /\ main_pc' = "loop"
    /\ AsmDropped
    /\ model' = "none"
    /\ messages_tokens' = 0
    /\ UNCHANGED <<stdout, requests, callVars, restVars>>

\* create_assistant_message failed or panicked: so does main
Propagate ==
    /\ main_pc = "awaiting"
    /\ asm_state \in {"failed", "panicked"}
    /\ main_pc' = IF asm_state = "failed" THEN "exit_err" ELSE "panicked"
    /\ asm_state' = "idle"
    /\ AsmDropped
    /\ model' = "none"
    /\ messages_tokens' = 0
    /\ UNCHANGED <<stdout, new_messages, requests, callVars, restVars>>

\* the while condition fails: Ok(())
LoopExit ==
    /\ main_pc = "loop"
    /\ ~LoopContinues(new_messages)
    /\ main_pc' = "exit_ok"
    /\ UNCHANGED <<new_messages, model, messages_tokens, requests, asmVars, callVars,
                   restVars>>

InitMain ==
    /\ main_pc = "start"
    /\ new_messages = <<>>
    /\ model = "none"
    /\ messages_tokens = 0
    /\ requests = 0
    /\ asm_state = "idle"
    /\ stdout = <<>>
    /\ AsmEntry
    /\ CallIdle
    /\ RestIdle

NextMain ==
    \/ \E input \in Inputs, prompt_tokens \in TokenCounts :
          CreateUserMessage(input, prompt_tokens)
    \/ \E prompt_tokens \in TokenCounts, transport_ok \in BOOLEAN :
          SendRequest(prompt_tokens, transport_ok)
    \/ ReceiveChunk(MainFragments, MaxReplyFragments)
    \/ ReceiveError
    \/ StreamEnd
    \/ \E broken_at \in 0..2 : ProcessChoice(broken_at)
    \/ UpdateNewMessages
    \/ Propagate
    \/ LoopExit

SpecMain == InitMain /\ [][NextMain]_vars

(***************************************************************************)
(* Functions::call and Provider::call (functions.rs).                      *)
(***************************************************************************)
Provider(name, safe) == [name |-> name, command |-> "cmd", args |-> <<>>, safe |-> safe]

\* the provider lists load can leave: sorted by name, names distinct
Registries ==
    {<<>>}
    \cup {<<Provider(n, s)>> : n \in {<<"f">>, <<"g">>}, s \in BOOLEAN}
    \cup {<<Provider(<<"f">>, s), Provider(<<"g">>, t)>> : s \in BOOLEAN, t \in BOOLEAN}

\* the names a call may ask for
CallNames == {<<"f">>, <<"g">>, <<"h">>}

\* the arguments a call may pass
CallArguments == {<<>>, <<"1">>}

\* the texts read() may capture of the standard output and error of a
\* provider process
Outputs == {<<>>, <<"[", " ", "1", "]">>, <<"a">>}

\* the position of the first provider with the name, 0 when there is none
get_provider(providers, name) ==
    LET found == {i \in 1..Len(providers) : providers[i].name = name}
    IN IF found = {} THEN 0 ELSE CHOOSE i \in found : \A j \in found : i <= j

\* a slip: the flag read the wrong way round
NeedsPromptInverted(p) == p.safe

\* is_approved: the prompt is reached only when self.safe is false
NeedsPrompt(p) == ~p.safe

\* a slip: a refusal is taken for an approval
AfterPromptRefusalRuns(a) == IF a = "error" THEN "error" ELSE "spawn"

\* a slip: a failure of the prompt is taken for a refusal
AfterPromptErrorRefuses(a) == IF a = "yes" THEN "spawn" ELSE "none"

\* is_approved, then the branch of Provider::call, on the answer of the prompt
AfterPrompt(a) ==
    IF a = "yes" THEN "spawn"
    ELSE IF a = "no" THEN "none"
    ELSE "error"

\* Functions::call maps what Provider::call returned
FunctionResponse(kind, output) == [kind |-> kind, output |-> output]

\* a slip: unchecked() left out, a status other than zero is an error
checked_read(output, status) ==
    IF status = 0 THEN FunctionResponse("Executed", output)
    ELSE FunctionResponse("Err", <<>>)

\* duct::cmd(...).unchecked().read() of a process that ran, as Functions::call
\* returns it: the exit status is not looked at
unchecked_read(output, status) == FunctionResponse("Executed", output)

\* Functions::call up to the prompt of is_approved, or up to the launch of
\* the process when there is no prompt
Call(name, arguments) ==
    /\ call_pc \in {"idle", "returned"}
    /\ calls < MaxCalls
    /\ calls' = calls + 1
    /\ answer' = "none"
    /\ exit_status' = -1
    /\ captured' = <<>>
    /\ LET i == get_provider(provider, name) IN
       IF i = 0
       THEN /\ current' = [found |-> FALSE, name |-> name, arguments |-> arguments,
                           safe |-> FALSE]
            /\ events' = <<>>
            /\ response' = FunctionResponse("NotFound", <<>>)
            /\ call_pc' = "returned"
       ELSE /\ current' = [found |-> TRUE, name |-> name, arguments |-> arguments,
                           safe |-> provider[i].safe]
            /\ response' = FunctionResponse("none", <<>>)
            /\ IF NeedsPrompt(provider[i])
               THEN /\ events' = <<"warn", "prompt">>
                    /\ call_pc' = "prompting"
               ELSE /\ events' = <<"warn">>
                    /\ call_pc' = "spawning"
    /\ UNCHANGED <<provider, asmVars, mainVars, restVars>>

\* Confirm::interact returns: yes, no, or an error
Answer(a) ==
    /\ call_pc = "prompting"
    /\ answer' = a
    /\ CASE AfterPrompt(a) = "spawn" ->
              /\ call_pc' = "spawning"
              /\ UNCHANGED response
         [] AfterPrompt(a) = "none" ->
              /\ call_pc' = "returned"
              /\ response' = FunctionResponse("Aborted", <<>>)
         [] AfterPrompt(a) = "error" ->
              /\ call_pc' = "returned"
              /\ response' = FunctionResponse("Err", <<>>)
    /\ UNCHANGED <<provider, current, events, exit_status, captured, calls, asmVars,
                   mainVars, restVars>>

\* duct::cmd(...).unchecked().read(): the process runs and its output is
\* the response whatever its status, or it cannot be launched, read() is
\* an error and expect panics
Run(launched, output, status) ==
    /\ call_pc = "spawning"
    /\ IF launched
       THEN /\ events' = Append(events, "spawn")
            /\ exit_status' = status
            /\ captured' = output
            /\ response' = unchecked_read(output, status)
            /\ call_pc' = "returned"
       ELSE /\ events' = Append(events, "launch_failed")
            /\ call_pc' = "panicked"
            /\ UNCHANGED <<exit_status, captured, response>>
    /\ UNCHANGED <<provider, current, answer, calls, asmVars, mainVars, restVars>>

InitCall ==
    /\ provider \in Registries
    /\ call_pc = "idle"
    /\ current = [found |-> FALSE, name |-> <<>>, arguments |-> <<>>, safe |-> FALSE]
    /\ answer = "none"
    /\ events = <<>>
    /\ response = FunctionResponse("none", <<>>)
    /\ exit_status = -1
    /\ captured = <<>>
    /\ calls = 0
    /\ asm_state = "idle"
    /\ stdout = <<>>
    /\ AsmEntry
    /\ MainIdle
    /\ RestIdle

NextCall ==
    \/ \E name \in CallNames, arguments \in CallArguments : Call(name, arguments)
    \/ \E a \in {"yes", "no", "error"} : Answer(a)
    \/ \E launched \in BOOLEAN, output \in Outputs, status \in {0, 1} :
          Run(launched, output, status)

SpecCall == InitCall /\ [][NextCall]_vars

(***************************************************************************)
(* Properties of Functions::call, under SpecCall.                          *)
(***************************************************************************)
Positions(seq, x) == {i \in 1..Len(seq) : seq[i] = x}

\* C1: in a call of a provider that is not safe, every launch of a process
\* comes after the confirmation prompt of that call; in a call of a safe
\* provider no prompt is issued.
C1_PromptBeforeLaunch ==
    /\ (current.found /\ ~current.safe) =>
          \A i \in Positions(events, "spawn") :
             \E j \in Positions(events, "prompt") : j < i
    /\ (current.found /\ current.safe) => Positions(events, "prompt") = {}

C1_Witness ==
    /\ current.found
    /\ ~current.safe
    /\ events = <<"warn", "prompt", "spawn">>

\* C2: a process has been launched only if the provider is safe or the
\* prompt of the same call answered yes; after a refusal the call has
\* returned Aborted and launched nothing.
C2_NoLaunchWithoutConsent ==
    /\ Positions(events, "spawn") # {} =>
          current.found /\ (current.safe \/ answer = "yes")
    /\ answer = "no" =>
          /\ call_pc = "returned"
          /\ response.kind = "Aborted"
          /\ Positions(events, "spawn") = {}

C2_Witness ==
    /\ answer = "no"
    /\ ~current.safe
    /\ response.kind = "Aborted"

\* C3: when the prompt of a provider that is not safe fails, the call has
\* returned an error, neither Executed nor Aborted, and launched nothing.
C3_PromptFailureIsError ==
    answer = "error" =>
       /\ call_pc = "returned"
       /\ response.kind = "Err"
       /\ Positions(events, "spawn") = {}

C3_Witness ==
    /\ answer = "error"
    /\ current.found
    /\ ~current.safe
    /\ call_pc = "returned"

(***************************************************************************)
(* Properties of create_assistant_message, under SpecAsm.                  *)
(***************************************************************************)
\* the content deltas of the fragments, concatenated in order
RECURSIVE ConcatContent(_)
ConcatContent(fs) ==
    IF fs = <<>> THEN <<>>
    ELSE (IF Head(fs).content.some THEN Head(fs).content.v ELSE <<>>)
         \o ConcatContent(Tail(fs))

\* the argument deltas of the fragments, concatenated in order
RECURSIVE ConcatArguments(_)
ConcatArguments(fs) ==
    IF fs = <<>> THEN <<>>
    ELSE (IF Head(fs).function_call.some /\ Head(fs).function_call.arguments.some
          THEN Head(fs).function_call.arguments.v
          ELSE <<>>)
         \o ConcatArguments(Tail(fs))

HasName(f) == f.function_call.some /\ f.function_call.name.some

\* the last name delta of the fragments, the empty text when there is none
LastName(fs) ==
    LET at == {i \in 1..Len(fs) : HasName(fs[i])}
    IN IF at = {} THEN <<>>
       ELSE fs[CHOOSE i \in at : \A j \in at : j <= i].function_call.name.v

\* the last name delta of the fragments that is not empty, if there is one
LastNonEmptyName(fs) ==
    LET at == {i \in 1..Len(fs) : HasName(fs[i]) /\ fs[i].function_call.name.v # <<>>}
    IN IF at = {} THEN NoText
       ELSE Some(fs[CHOOSE i \in at : \A j \in at : j <= i].function_call.name.v)

\* fragment i is the first processed fragment that carries a finish reason
FinishedAt(i) ==
    /\ i \in 1..Len(seen)
    /\ seen[i].finish_reason.some
    /\ \A j \in 1..(i - 1) : ~seen[j].finish_reason.some

\* the fragments up to and including fragment i
UpTo(i) == SubSeq(seen, 1, i)

\* C4: when the first finish reason is stop or length and nothing failed
\* before it, the message returned has no function_call and its content is
\* the trimmed concatenation, in order, of the content deltas up to and
\* including the finishing fragment.
C4_PlainAnswer ==
    \A i \in 1..Len(seen) :
       (/\ FinishedAt(i)
        /\ seen[i].finish_reason.v \in {"stop", "length"}
        /\ asm_state # "failed") =>
          /\ asm_state = "returned"
          /\ assistant_message.role = "assistant"
          /\ ~assistant_message.function_call.some
          /\ assistant_message.content = Some(Trim(ConcatContent(UpTo(i))))

C4_Witness ==
    /\ asm_state = "returned"
    /\ Len(seen) >= 2
    /\ seen[Len(seen)].finish_reason = Some("stop")
    /\ seen[Len(seen)].content.some
    /\ assistant_message.content.v # <<>>
    /\ assistant_message.content.v # ConcatContent(seen)

\* C5 as stated: when the first finish reason is function_call, the message
\* has empty content, the last non-empty name delta as function_call.name
\* and the compacted concatenation of the argument deltas as arguments.
C5_LastNonEmptyName ==
    \A i \in 1..Len(seen) :
       (/\ FinishedAt(i)
        /\ seen[i].finish_reason.v = "function_call"
        /\ asm_state # "failed") =>
          /\ assistant_message.content = Some(<<>>)
          /\ assistant_message.function_call.some
          /\ LastNonEmptyName(UpTo(i)).some =>
                assistant_message.function_call.name = LastNonEmptyName(UpTo(i)).v
          /\ assistant_message.function_call.arguments =
                try_compact_json(ConcatArguments(UpTo(i)))

\* C5: when the first finish reason is function_call, the message has empty
\* content, function_call.name is the last name delta (empty or not)
\* trimmed, the empty text when no name delta came, and
\* function_call.arguments is the compacted concatenation, in order, of the
\* argument deltas.
C5_FunctionCall ==
    \A i \in 1..Len(seen) :
       (/\ FinishedAt(i)
        /\ seen[i].finish_reason.v = "function_call"
        /\ asm_state # "failed") =>
          /\ asm_state = "returned"
          /\ assistant_message.role = "assistant"
          /\ assistant_message.content = Some(<<>>)
          /\ assistant_message.function_call.some
          /\ assistant_message.function_call.name = Trim(LastName(UpTo(i)))
          /\ assistant_message.function_call.arguments =
                try_compact_json(ConcatArguments(UpTo(i)))

C5_Witness ==
    /\ asm_state = "returned"
    /\ Len(seen) = 3
    /\ seen[3].finish_reason = Some("function_call")
    /\ HasName(seen[1])
    /\ seen[1].function_call.name.v # <<>>
    /\ HasName(seen[2])
    /\ seen[2].function_call.name.v = <<>>
    /\ assistant_message.function_call.name = <<>>

\* C6: an invocation returns at most one message, returns it at the first
\* fragment that carries a finish reason, and processes no fragment after a
\* fragment that carries a finish reason.
C6_OneMessage ==
    /\ produced <= 1
    /\ \A i \in 1..(Len(seen) - 1) : ~seen[i].finish_reason.some
    /\ asm_state = "returned" =>
          /\ produced = 1
          /\ FinishedAt(Len(seen))
    /\ produced = 1 => asm_state = "returned"

C6_Witness ==
    /\ asm_state = "returned"
    /\ produced = 1
    /\ choices # <<>>
    /\ Head(choices).finish_reason.some

IsPrefix(s, t) == Len(s) <= Len(t) /\ SubSeq(t, 1, Len(s)) = s

\* the message returned is one of a reply that finished with stop or length
ReturnedPlain == asm_state = "returned" /\ ~assistant_message.function_call.some

\* C7 as stated: at every step the sink holds the concatenation of the
\* content deltas processed so far.
C7_SinkIsContent ==
    asm_state \in {"running", "returned", "panicked"} =>
       stdout = ConcatContent(seen)

C7_SinkState ==
    /\ asm_state \in {"running", "panicked"} => stdout = ConcatContent(seen)
    /\ (asm_state = "returned" /\ ~ReturnedPlain) => stdout = ConcatContent(seen)
    /\ ReturnedPlain => stdout = ConcatContent(seen) \o <<"\n">>
    /\ asm_state = "failed" =>
          \/ stdout = ConcatContent(seen)
          \/ stdout = ConcatContent(SubSeq(seen, 1, Len(seen) - 1))

\* C7: while fragments are processed the sink holds exactly the
\* concatenation, in order, of the content deltas processed so far; a
\* finish with stop or length puts one newline after them; a failure leaves
\* in the sink what was forwarded (at most the content delta whose write
\* failed is missing); nothing written is ever taken back.
C7_SinkForwarding ==
    /\ []C7_SinkState
    /\ [][IsPrefix(stdout, stdout')]_vars

C7_Witness ==
    /\ asm_state = "failed"
    /\ stdout # <<>>
    /\ Len(seen) >= 2
    /\ stdout = ConcatContent(seen)

\* C8: a fragment with a role other than assistant, a finish reason other
\* than stop, length and function_call, and a stream that ends before any
\* finish reason each end the invocation in a failure with no message.
C8_ProtocolViolations ==
    /\ (\E i \in 1..Len(seen) : ~(seen[i].role.some => seen[i].role.v = "assistant")) =>
          /\ asm_state = "failed"
          /\ produced = 0
    /\ (\E i \in 1..Len(seen) :
           /\ seen[i].finish_reason.some
           /\ seen[i].finish_reason.v \notin {"stop", "length", "function_call"}) =>
          /\ asm_state \in {"failed", "panicked"}
          /\ produced = 0
    /\ stream_state = "ended" =>
          /\ asm_state = "panicked"
          /\ produced = 0
          /\ \A i \in 1..Len(seen) : ~seen[i].finish_reason.some

C8_Witness ==
    /\ asm_state = "panicked"
    /\ seen # <<>>
    /\ seen[Len(seen)].finish_reason = Some("content_filter")
    /\ stdout # <<>>

(***************************************************************************)
(* Properties of the conversation loop, under SpecMain.                    *)
(***************************************************************************)
IsCall(m) == m.role = "assistant" /\ m.function_call.some

IsPlain(m) == m.role = "assistant" /\ ~m.function_call.some /\ m.content.some

IsResult(m) == m.role = "function"

\* the last message of the conversation is an assistant message
AnswerIsLast ==
    new_messages # <<>> /\ new_messages[Len(new_messages)].role = "assistant"

\* the messages of the conversation that are function calls not yet answered
Unanswered ==
    {i \in 1..Len(new_messages) :
        /\ IsCall(new_messages[i])
        /\ ~(i < Len(new_messages) /\ IsResult(new_messages[i + 1]))}

\* C9: every function call message of the conversation is followed at once
\* by a function message of the same name, every function message follows
\* a function call message, and while a request is in flight no function
\* call is unanswered.
C9_CallThenResult ==
    /\ \A i \in 1..Len(new_messages) :
          IsCall(new_messages[i]) =>
             /\ i < Len(new_messages)
             /\ IsResult(new_messages[i + 1])
             /\ new_messages[i + 1].name = Some(new_messages[i].function_call.name)
    /\ \A i \in 1..Len(new_messages) :
          IsResult(new_messages[i]) => i > 1 /\ IsCall(new_messages[i - 1])
    /\ main_pc = "awaiting" =>
          /\ Unanswered = {}
          /\ ~AnswerIsLast

C9_Witness ==
    /\ main_pc = "awaiting"
    /\ requests = 3
    /\ Len(new_messages) = 5
    /\ new_messages[2].function_call.name = <<"f">>
    /\ new_messages[4].function_call.name = <<>>

\* the conversation is a user message, k call and result pairs and a plain
\* answer
FinalShape(k) ==
    /\ Len(new_messages) = 2 * k + 2
    /\ new_messages[1].role = "user"
    /\ \A j \in 1..k :
          /\ IsCall(new_messages[2 * j])
          /\ IsResult(new_messages[2 * j + 1])
    /\ IsPlain(new_messages[2 * k + 2])

\* C10: a run that ends successfully sent one request for each of its k
\* function call replies and one for the plain answer, and its conversation
\* is the user message, the k pairs and the plain answer; once the plain
\* answer is appended the only step left is the successful exit: no request
\* is sent and the conversation is left as it is.
C10_EndsAfterPlainAnswer ==
    /\ [](main_pc = "exit_ok" => requests >= 1 /\ FinalShape(requests - 1))
    /\ [][AnswerIsLast =>
             /\ requests' = requests
             /\ new_messages' = new_messages
             /\ main_pc' = "exit_ok"]_vars

C10_Witness ==
    /\ main_pc = "exit_ok"
    /\ requests = 2
    /\ Len(new_messages) = 4
    /\ IsCall(new_messages[2])
    /\ IsResult(new_messages[3])
    /\ IsPlain(new_messages[4])

(***************************************************************************)
(* The text of a function response (impl Display for FunctionResponse).    *)
(***************************************************************************)
AbortedText ==
    <<"f", "u", "n", "c", "t", "i", "o", "n", " ", "c", "a", "l", "l",
      " ", "a", "b", "o", "r", "t", "e", "d", ":", " ", "u", "s", "e",
      "r", " ", "d", "e", "n", "i", "e", "d", " ", "c", "o", "m", "m",
      "a", "n", "d", " ", "e", "x", "e", "c", "u", "t", "i", "o", "n">>

NotFoundText ==
    <<"f", "u", "n", "c", "t", "i", "o", "n", " ", "n", "o", "t", " ",
      "f", "o", "u", "n", "d", ":", " ", "t", "h", "e", " ", "r", "e",
      "q", "u", "e", "s", "t", "e", "d", " ", "f", "u", "n", "c", "t",
      "i", "o", "n", " ", "i", "s", " ", "c", "u", "r", "r", "e", "n",
      "t", "l", "y", " ", "u", "n", "a", "v", "a", "i", "l", "a", "b",
      "l", "e", " ", "o", "r", " ", "n", "o", "t", " ", "i", "m", "p",
      "l", "e", "m", "e", "n", "t", "e", "d", " ", "y", "e", "t">>

\* fmt: the text a function response is shown as
fmt(r) ==
    CASE r.kind = "Executed" -> try_compact_json(r.output)
      [] r.kind = "Aborted" -> AbortedText
      [] r.kind = "NotFound" -> NotFoundText

(***************************************************************************)
(* main run where functions.toml configures providers and the user at the  *)
(* terminal refuses every confirmation asked of them.                      *)
(***************************************************************************)
\* the provider lists the configuration may hold
TurnRegistries ==
    {<<>>} \cup {<<Provider(<<"f">>, s)>> : s \in BOOLEAN}

InitTurn ==
    /\ main_pc = "start"
    /\ new_messages = <<>>
    /\ model = "none"
    /\ messages_tokens = 0
    /\ requests = 0
    /\ asm_state = "idle"
    /\ stdout = <<>>
    /\ AsmEntry
    /\ provider \in TurnRegistries
    /\ call_pc = "none"
    /\ current = [found |-> FALSE, name |-> <<>>, arguments |-> <<>>, safe |-> FALSE]
    /\ answer = "no"
    /\ events = <<>>
    /\ response = FunctionResponse("none", <<>>)
    /\ exit_status = -1
    /\ captured = <<>>
    /\ calls = 0
    /\ RestIdle

SpecTurn == InitTurn /\ [][NextMain]_vars

(***************************************************************************)
(* C11: when the user refuses the confirmation of a provider that is not   *)
(* safe, the conversation gets a function message whose content signals    *)
(* the abort, and the loop goes on: it does not end while that message is  *)
(* the last one.                                                           *)
(***************************************************************************)
\* the positions of the calls the refusing user is asked about
DeniedCalls ==
    {i \in 1..Len(new_messages) :
        /\ IsCall(new_messages[i])
        /\ LET p == get_provider(provider, new_messages[i].function_call.name)
           IN p # 0 /\ ~provider[p].safe /\ answer = "no"}

C11_DenialSignalsAbort ==
    \A i \in DeniedCalls :
        /\ i < Len(new_messages) =>
              /\ IsResult(new_messages[i + 1])
              /\ new_messages[i + 1].content =
                    Some(fmt(FunctionResponse("Aborted", <<>>)))
        /\ i + 1 = Len(new_messages) => main_pc # "exit_ok"

(***************************************************************************)
(* C12: the conversation only grows at its end: every step leaves the      *)
(* conversation it found as a prefix of the one it leaves, and a step that *)
(* ends main with an error or a panic leaves the conversation as it was.   *)
(***************************************************************************)
StepFails == main_pc' \in {"exit_err", "panicked"} /\ main_pc' # main_pc

C12_AppendOnly ==
    [][/\ IsPrefix(new_messages, new_messages')
       /\ StepFails => new_messages' = new_messages]_vars

\* a run that failed after the conversation had grown by a call and its result
C12_Witness ==
    /\ main_pc \in {"exit_err", "panicked"}
    /\ Len(new_messages) = 3
    /\ requests = 2

(***************************************************************************)
(* C13: the model of a request is the first of MODELS, which are in        *)
(* increasing order of price, that leaves at least MIN_COMPLETION_TOKENS   *)
(* for the completion: every model before it leaves less.  When no model   *)
(* leaves that much, building the request fails: main ends with an error   *)
(* and no request is sent.                                                 *)
(***************************************************************************)
\* create_request has counted the messages of this iteration
Counted == messages_tokens > 0

Budget(m) == MaxCompletionTokens(m, messages_tokens)

Enough == {i \in 1..Len(MODELS) : Budget(MODELS[i]) >= MIN_COMPLETION_TOKENS}

C13_Selected ==
    Counted =>
       IF Enough = {}
       THEN model = "none" /\ main_pc = "exit_err" /\ asm_state = "idle"
       ELSE \E i \in Enough :
               /\ model = MODELS[i]
               /\ \A j \in 1..(i - 1) : Budget(MODELS[j]) < MIN_COMPLETION_TOKENS

C13_ModelSelector ==
    /\ []C13_Selected
    /\ [][(~Counted /\ Counted' /\ model' = "none") => requests' = requests]_vars

\* the second request of a run went to the fourth model: the three before
\* it leave too little
C13_Witness ==
    /\ Counted
    /\ model = "gpt-4-32k"
    /\ main_pc = "awaiting"
    /\ requests = 2
    /\ Len(new_messages) = 3

(***************************************************************************)
(* C17: once the process of an approved call is launched, the call         *)
(* returns Executed with the text captured from its standard output and    *)
(* error, whatever the exit status: a status other than zero gives neither *)
(* an error nor Aborted.                                                   *)
(***************************************************************************)
Launched == Positions(events, "spawn") # {}

C17_StatusIgnored ==
    Launched =>
       /\ call_pc = "returned"
       /\ response = [kind |-> "Executed", output |-> captured]

\* a process that wrote something and exited with status 1
C17_Witness ==
    /\ Launched
    /\ exit_status = 1
    /\ captured = <<"a">>
    /\ response.kind = "Executed"

(***************************************************************************)
(* C19: when the process of an approved call cannot be launched, the call  *)
(* returns an error to its caller: it returns, and what it returns is      *)
(* neither Executed, Aborted nor NotFound.                                 *)
(***************************************************************************)
LaunchFailed == Positions(events, "launch_failed") # {}

C19_LaunchFailureIsError ==
    LaunchFailed => call_pc = "returned" /\ response.kind = "Err"

(***************************************************************************)
(* C20, as stated: the name of every function message of the conversation  *)
(* is the name of a provider of the registry.                              *)
(***************************************************************************)
C20_NamesRegistered ==
    \A i \in 1..Len(new_messages) :
       IsResult(new_messages[i]) =>
          /\ new_messages[i].name.some
          /\ get_provider(provider, new_messages[i].name.v) # 0

(***************************************************************************)
(* C20, amended: the name of every function message of the conversation is *)
(* the name the function call right before it asked for, be there a        *)
(* provider of that name in the registry or not.                           *)
(***************************************************************************)
C20_NameIsRequested ==
    \A i \in 1..Len(new_messages) :
       IsResult(new_messages[i]) =>
          /\ i > 1
          /\ new_messages[i].name = Some(new_messages[i - 1].function_call.name)

\* a provider f is registered and the conversation has a function message
\* for a call that asked for another name
C20_Witness ==
    /\ get_provider(provider, <<"f">>) # 0
    /\ Len(new_messages) >= 3
    /\ IsResult(new_messages[3])
    /\ new_messages[3].name.some
    /\ get_provider(provider, new_messages[3].name.v) = 0

(***************************************************************************)
(* try_compact_json run alone: applied to a text, then to what it          *)
(* returned.                                                               *)
(***************************************************************************)
\* the characters of the texts: JSON punctuation, digits, whitespace and a
\* letter, which no JSON of the model holds
NormAlphabet == {" ", "\n", "0", "1", "[", "]", ",", "a"}

NormTexts == UNION {[1..n -> NormAlphabet] : n \in 0..MaxTextLen}

Normalize ==
    /\ Len(norm_outputs) < MaxApplications
    /\ norm_outputs' =
          Append(norm_outputs,
                 try_compact_json(IF norm_outputs = <<>> THEN norm_input
                                  ELSE norm_outputs[Len(norm_outputs)]))
    /\ UNCHANGED <<norm_input, asmVars, mainVars, callVars, loadVars, specsVars>>

InitNorm ==
    /\ norm_input \in NormTexts
    /\ norm_outputs = <<>>
    /\ asm_state = "idle"
    /\ stdout = <<>>
    /\ AsmEntry
    /\ MainIdle
    /\ CallIdle
    /\ LoadIdle
    /\ SpecsIdle

NextNorm == Normalize

SpecNorm == InitNorm /\ [][NextNorm]_vars

(***************************************************************************)
(* C16: applying try_compact_json to what it returned gives the same text  *)
(* again; a text that is not JSON comes back with the whitespace at its    *)
(* two ends removed and nothing else changed.  Every application returns   *)
(* a text: there is no failure.                                            *)
(***************************************************************************)
\* y is x without the whitespace at its two ends
TrimmedOf(x, y) ==
    /\ \E a \in 0..Len(x), b \in 0..Len(x) :
          /\ a + b <= Len(x)
          /\ y = SubSeq(x, a + 1, Len(x) - b)
          /\ \A i \in 1..a : x[i] \in Whitespace
          /\ \A i \in (Len(x) - b + 1)..Len(x) : x[i] \in Whitespace
    /\ y # <<>> => y[1] \notin Whitespace /\ y[Len(y)] \notin Whitespace

CharCode(c) ==
    CASE c = "f" -> 102 [] c = "g" -> 103 [] c = "h" -> 104

\* String::cmp: byte by byte, a proper prefix is less
RECURSIVE cmp(_, _)
cmp(a, b) ==
    IF a = <<>> THEN (IF b = <<>> THEN "Equal" ELSE "Less")
    ELSE IF b = <<>> THEN "Greater"
    ELSE IF CharCode(Head(a)) < CharCode(Head(b)) THEN "Less"
    ELSE IF CharCode(Head(a)) > CharCode(Head(b)) THEN "Greater"
    ELSE cmp(Tail(a), Tail(b))

\* x put into a sorted list behind every item that is not greater than it
RECURSIVE Inserted(_, _)
Inserted(sorted, x) ==
    IF sorted = <<>> THEN <<x>>
    ELSE IF cmp(Head(sorted).name, x.name) = "Greater" THEN <<x>> \o sorted
    ELSE <<Head(sorted)>> \o Inserted(Tail(sorted), x)

\* Itertools::sorted_by on the names: a stable sort
RECURSIVE sorted_by(_)
sorted_by(items) ==
    IF items = <<>> THEN <<>>
    ELSE Inserted(sorted_by(SubSeq(items, 1, Len(items) - 1)), items[Len(items)])

\* a slip: of each run of one name the last item is kept
RECURSIVE dedup_by_with_count_last(_)
dedup_by_with_count_last(items) ==
    IF items = <<>> THEN <<>>
    ELSE LET rest == dedup_by_with_count_last(Tail(items)) IN
         IF rest # <<>> /\ rest[1].item.name = Head(items).name
         THEN <<[count |-> rest[1].count + 1, item |-> rest[1].item]>> \o Tail(rest)
         ELSE <<[count |-> 1, item |-> Head(items)]>> \o rest

\* Itertools::dedup_by_with_count on the names: of each run of one name the
\* first item, with the length of the run
RECURSIVE dedup_by_with_count(_)
dedup_by_with_count(items) ==
    IF items = <<>> THEN <<>>
    ELSE LET rest == dedup_by_with_count(Tail(items)) IN
         IF rest # <<>> /\ rest[1].item.name = Head(items).name
         THEN <<[count |-> rest[1].count + 1, item |-> Head(items)]>> \o Tail(rest)
         ELSE <<[count |-> 1, item |-> Head(items)]>> \o rest

\* shellexpand::full of one argument: the home directory for a tilde, an
\* error for a variable that is not set, any other argument as it is
full(arg) ==
    CASE arg = "~" -> [ok |-> TRUE, v |-> "/home/u"]
      [] arg = "$UNSET" -> [ok |-> FALSE, v |-> ""]
      [] OTHER -> [ok |-> TRUE, v |-> arg]

\* the arguments of a provider all expand
Expands(p) == \A i \in 1..Len(p.args) : full(p.args[i]).ok

Expanded(p) == [p EXCEPT !.args = [i \in 1..Len(p.args) |-> full(p.args[i]).v]]

Warning(kind, name, count) == [warn |-> kind, name |-> name, count |-> count]

\* the warnings the inspect of the provider pipeline logs for the groups
RECURSIVE ProviderWarnings(_)
ProviderWarnings(groups) ==
    IF groups = <<>> THEN <<>>
    ELSE (IF Head(groups).count > 1
          THEN <<Warning("provider defined", Head(groups).item.name, Head(groups).count)>>
          ELSE <<>>)
         \o ProviderWarnings(Tail(groups))

\* the warnings the inspect of the function pipeline logs for the groups
RECURSIVE FunctionWarnings(_, _)
FunctionWarnings(groups, providers) ==
    IF groups = <<>> THEN <<>>
    ELSE (IF Head(groups).count > 1
          THEN <<Warning("function defined", Head(groups).item.name, Head(groups).count)>>
          ELSE <<>>)
         \o (IF get_provider(providers, Head(groups).item.name) = 0
             THEN <<Warning("function has no provider", Head(groups).item.name, 0)>>
             ELSE <<>>)
         \o FunctionWarnings(Tail(groups), providers)

\* a [[provider]] table of functions.toml
Table(name, command, args, safe) ==
    [name |-> name, command |-> command, args |-> args, safe |-> safe]

ProviderTables ==
    {Table(<<"f">>, "c1", <<>>, FALSE),
     Table(<<"f">>, "c2", <<"~">>, TRUE),
     Table(<<"g">>, "c1", <<"-x">>, FALSE),
     Table(<<"g">>, "c2", <<"$UNSET">>, TRUE),
     Table(<<"f", "g">>, "c1", <<>>, FALSE)}

\* a [[function]] table of functions.toml: ChatCompletionFunctions
Override(name, description, parameters) ==
    [name |-> name, description |-> description, parameters |-> parameters]

NoParameters == [some |-> FALSE, v |-> NoValue]

OverrideTables ==
    {Override(<<"f">>, Some(<<"d">>), NoParameters),
     Override(<<"f">>, NoText, NoParameters),
     Override(<<"h">>, NoText, NoParameters)}

Lists(S, n) == UNION {[1..k -> S] : k \in 0..n}

\* Functions::load from the deserialized file on: the providers are gone
\* through in the order of their names, and the first argument that does
\* not expand ends load with its error
Load ==
    /\ load_pc = "start"
    /\ LET groups == dedup_by_with_count(sorted_by(config.provider))
           bad == {k \in 1..Len(groups) : ~Expands(groups[k].item)}
           overrides == dedup_by_with_count(sorted_by(config.function))
       IN IF bad = {}
          THEN /\ provider' = [k \in 1..Len(groups) |-> Expanded(groups[k].item)]
               /\ function' = [k \in 1..Len(overrides) |-> overrides[k].item]
               /\ log' = ProviderWarnings(groups)
                            \o FunctionWarnings(overrides, provider')
               /\ load_pc' = "loaded"
          ELSE /\ log' = ProviderWarnings(
                            SubSeq(groups, 1, CHOOSE k \in bad : \A j \in bad : k <= j))
               /\ load_pc' = "failed"
               /\ UNCHANGED <<provider, function>>
    /\ UNCHANGED <<config, call_pc, current, answer, events, response, exit_status,
                   captured, calls, asmVars, mainVars, specsVars, normVars>>

InitLoad ==
    /\ config \in [provider : Lists(ProviderTables, MaxProviders),
                   function : Lists(OverrideTables, MaxOverrides)]
    /\ function = <<>>
    /\ log = <<>>
    /\ load_pc = "start"
    /\ asm_state = "idle"
    /\ stdout = <<>>
    /\ AsmEntry
    /\ MainIdle
    /\ CallIdle
    /\ SpecsIdle
    /\ NormIdle

NextLoad == Load

SpecLoad == InitLoad /\ [][NextLoad]_vars

(***************************************************************************)
(* C14: after load the names of the providers are pairwise distinct, and   *)
(* so are the names of the functions; of the tables of one name the one    *)
(* kept is the first of the file; a name that comes several times gets one *)
(* warning that it is defined several times, a name that comes once none.  *)
(***************************************************************************)
Distinct(items) ==
    \A i \in 1..Len(items), j \in 1..Len(items) :
       items[i].name = items[j].name => i = j

Occurrences(tables, name) == {i \in 1..Len(tables) : tables[i].name = name}

FirstOccurrence(tables, name) ==
    CHOOSE i \in Occurrences(tables, name) : \A j \in Occurrences(tables, name) : i <= j

\* every name of the tables has an item, which is what Kept makes of the
\* first table of that name
KeepsFirst(tables, items, Kept(_)) ==
    \A t \in 1..Len(tables) :
       \E i \in 1..Len(items) :
          /\ items[i].name = tables[t].name
          /\ items[i] = Kept(tables[FirstOccurrence(tables, tables[t].name)])

AsItIs(table) == table

\* one warning for each name that comes several times, none for the others
WarnsOnce(tables, kind) ==
    \A t \in 1..Len(tables) :
       LET n == Cardinality(Occurrences(tables, tables[t].name))
           w == {k \in 1..Len(log) : log[k].warn = kind /\ log[k].name = tables[t].name}
       IN /\ Cardinality(w) = (IF n > 1 THEN 1 ELSE 0)
          /\ \A k \in w : log[k].count = n

C14_LoadDeduplicates ==
    load_pc = "loaded" =>
       /\ Distinct(provider) /\ Distinct(function)
       /\ Len(provider) <= Len(config.provider)
       /\ Len(function) <= Len(config.function)
       /\ KeepsFirst(config.provider, provider, Expanded)
       /\ KeepsFirst(config.function, function, AsItIs)
       /\ WarnsOnce(config.provider, "provider defined")
       /\ WarnsOnce(config.function, "function defined")

\* a file that names g, then f twice, and f twice among its functions
C14_Witness ==
    /\ load_pc = "loaded"
    /\ config.provider = <<Table(<<"g">>, "c1", <<"-x">>, FALSE),
                           Table(<<"f">>, "c2", <<"~">>, TRUE),
                           Table(<<"f">>, "c1", <<>>, FALSE)>>
    /\ config.function = <<Override(<<"f">>, NoText, NoParameters),
                           Override(<<"f">>, Some(<<"d">>), NoParameters)>>
    /\ provider = <<Table(<<"f">>, "c2", <<"/home/u">>, TRUE),
                    Table(<<"g">>, "c1", <<"-x">>, FALSE)>>
    /\ function = <<Override(<<"f">>, NoText, NoParameters)>>
    /\ Len(log) = 2

(***************************************************************************)
(* Functions::specifications, Provider::specification and merge            *)
(* (functions.rs).  The parameters of a specification are a                *)
(* serde_json::Value: null, a number or an object, a map from keys to      *)
(* values.                                                                 *)
(***************************************************************************)
Null == [t |-> "null"]

Num(n) == [t |-> "num", n |-> n]

Obj(m) == [t |-> "obj", m |-> m]

NoKeys == [k \in {} |-> Null]

\* the maps that have the key with one of the values, or do not have it
Field(key, values) == {NoKeys} \cup {[k \in {key} |-> v] : v \in values}

Join(m, n) == [k \in DOMAIN m \cup DOMAIN n |-> IF k \in DOMAIN m THEN m[k] ELSE n[k]]

\* a slip: a null of the patch is stored like any other value
RECURSIVE json_patch_merge_keeps_null(_, _)
json_patch_merge_keeps_null(doc, patch) ==
    IF patch.t # "obj" THEN patch
    ELSE LET map == IF doc.t = "obj" THEN doc.m ELSE NoKeys
         IN Obj([k \in DOMAIN map \cup DOMAIN patch.m |->
                   IF k \in DOMAIN patch.m
                   THEN json_patch_merge_keeps_null(
                           IF k \in DOMAIN map THEN map[k] ELSE Null, patch.m[k])
                   ELSE map[k]])

\* json_patch::merge (RFC 7396): a patch that is no object replaces the
\* document; of a patch that is an object, a null removes its key and any
\* other value is merged into the value of its key
RECURSIVE json_patch_merge(_, _)
json_patch_merge(doc, patch) ==
    IF patch.t # "obj" THEN patch
    ELSE LET map == IF doc.t = "obj" THEN doc.m ELSE NoKeys
             removed == {k \in DOMAIN patch.m : patch.m[k].t = "null"}
             merged == DOMAIN patch.m \ removed
         IN Obj([k \in (DOMAIN map \ removed) \cup merged |->
                   IF k \in merged
                   THEN json_patch_merge(IF k \in DOMAIN map THEN map[k] ELSE Null,
                                         patch.m[k])
                   ELSE map[k]])

\* merge: the description and the parameters of the patch, when it has
\* them, go into the specification; its name is not looked at
merge(s, patch) ==
    [name |-> s.name,
     description |-> IF patch.description.some THEN patch.description
                     ELSE s.description,
     parameters |-> IF s.parameters.some /\ patch.parameters.some
                    THEN Some(json_patch_merge(s.parameters.v, patch.parameters.v))
                    ELSE IF patch.parameters.some THEN patch.parameters
                    ELSE s.parameters]

\* the position of the first function with the name, 0 when there is none
get_function(functions, name) ==
    LET found == {i \in 1..Len(functions) : functions[i].name = name}
    IN IF found = {} THEN 0 ELSE CHOOSE i \in found : \A j \in found : i <= j

\* a slip: the name the process reported is kept
specification_reported_name(p, rep) ==
    IF rep.kind = "io" THEN [kind |-> "Err", cause |-> "Right"]
    ELSE IF rep.kind = "not json" THEN [kind |-> "Err", cause |-> "Left"]
    ELSE [kind |-> "Ok", v |-> rep.v]

\* Provider::specification on what the process run with "spec" did: it
\* failed, it printed something that is no specification, or it printed one
specification(p, rep) ==
    IF rep.kind = "io" THEN [kind |-> "Err", cause |-> "Right"]
    ELSE IF rep.kind = "not json" THEN [kind |-> "Err", cause |-> "Left"]
    ELSE [kind |-> "Ok", v |-> [rep.v EXCEPT !.name = p.name]]

\* the parameters a process may report
BaseParameters ==
    {Num(1)}
    \cup {Obj(Join(m, n)) :
             m \in Field("a", {Num(1), Obj([a |-> Num(1), b |-> Num(1)])}),
             n \in Field("b", {Num(1), Num(2)})}

\* the parameters a [[function]] table may hold
PatchParameters ==
    {Num(3)}
    \cup {Obj(Join(Join(m, n), o)) :
             m \in Field("a", {Null, Num(3), Obj([a |-> Null]), Obj([b |-> Num(3)])}),
             n \in Field("b", {Null, Num(3)}),
             o \in Field("c", {Num(3)})}

OptionOf(S) == {[some |-> FALSE, v |-> NoValue]} \cup {Some(x) : x \in S}

\* what the process of a provider run with "spec" may do
Reports ==
    {[kind |-> "io"], [kind |-> "not json"]}
    \cup {[kind |-> "spec", v |-> Override(n, d, p)] :
             n \in {<<"f">>, <<"g">>},
             d \in {NoText, Some(<<"e">>)},
             p \in OptionOf(BaseParameters)}

\* the function lists load may have left
SpecFunctions ==
    LET fs == {Override(<<"f">>, d, p) :
                  d \in {NoText, Some(<<"d">>)}, p \in OptionOf(PatchParameters)}
        g == Override(<<"g">>, Some(<<"d", "g">>), NoParameters)
    IN {<<>>, <<g>>} \cup {<<f>> : f \in fs} \cup {<<f, g>> : f \in fs}

\* the provider lists load may have left
SpecProviders ==
    {<<Provider(<<"f">>, FALSE)>>,
     <<Provider(<<"f">>, FALSE), Provider(<<"g">>, TRUE)>>}

\* one next() of the iterator specifications() returns
Specification(rep) ==
    /\ spec_index < Len(provider)
    /\ spec_index' = spec_index + 1
    /\ report' = rep
    /\ LET p == provider[spec_index + 1]
           r == specification(p, rep)
       IN /\ spec' = IF r.kind = "Ok" /\ get_function(function, r.v.name) # 0
                     THEN [r EXCEPT !.v = merge(r.v,
                                                function[get_function(function, r.v.name)])]
                     ELSE r
          /\ log' = IF rep.kind = "spec" /\ rep.v.name # p.name
                    THEN Append(log, Warning("name differs", p.name, 0))
                    ELSE log
    /\ UNCHANGED <<config, function, load_pc, asmVars, mainVars, callVars, normVars>>

InitSpecs ==
    /\ provider \in SpecProviders
    /\ function \in SpecFunctions
    /\ config = [provider |-> <<>>, function |-> <<>>]
    /\ log = <<>>
    /\ load_pc = "none"
    /\ call_pc = "none"
    /\ current = [found |-> FALSE, name |-> <<>>, arguments |-> <<>>, safe |-> FALSE]
    /\ answer = "none"
    /\ events = <<>>
    /\ response = FunctionResponse("none", <<>>)
    /\ exit_status = -1
    /\ captured = <<>>
    /\ calls = 0
    /\ asm_state = "idle"
    /\ stdout = <<>>
    /\ AsmEntry
    /\ MainIdle
    /\ SpecsIdle
    /\ NormIdle

NextSpecs == \E rep \in Reports : Specification(rep)

SpecSpecs == InitSpecs /\ [][NextSpecs]_vars

(***************************************************************************)
(* C15: when the specification and the function of its name both have      *)
(* parameters, objects the two, the parameters returned are the merge      *)
(* patch of the two: a key the patch gives null is gone, any other key of  *)
(* the patch has the value of the patch, merged in the same way where that *)
(* value is an object, and a key the patch does not have keeps the value   *)
(* of the specification.                                                   *)
(***************************************************************************)
\* the function merged into the specification returned last, 0 without one
Merged == IF spec.kind = "Ok" THEN get_function(function, provider[spec_index].name) ELSE 0

RECURSIVE IsMergePatch(_, _, _)
IsMergePatch(base, patch, result) ==
    /\ result.t = "obj"
    /\ DOMAIN result.m \subseteq DOMAIN base.m \cup DOMAIN patch.m
    /\ \A k \in DOMAIN patch.m :
          IF patch.m[k].t = "null" THEN k \notin DOMAIN result.m
          ELSE /\ k \in DOMAIN result.m
               /\ IF patch.m[k].t = "obj"
                  THEN IsMergePatch(IF k \in DOMAIN base.m /\ base.m[k].t = "obj"
                                    THEN base.m[k] ELSE Obj(NoKeys),
                                    patch.m[k], result.m[k])
                  ELSE result.m[k] = patch.m[k]
    /\ \A k \in DOMAIN base.m \ DOMAIN patch.m :
          k \in DOMAIN result.m /\ result.m[k] = base.m[k]

C15_MergePatch ==
    (/\ Merged # 0
     /\ report.v.parameters.some /\ report.v.parameters.v.t = "obj"
     /\ function[Merged].parameters.some /\ function[Merged].parameters.v.t = "obj")
    => /\ spec.v.parameters.some
       /\ IsMergePatch(report.v.parameters.v, function[Merged].parameters.v,
                       spec.v.parameters.v)

\* {"a":1,"b":2} merged with {"b":null,"c":3} is {"a":1,"c":3}
C15_Witness ==
    /\ Merged # 0
    /\ report.v.parameters = Some(Obj([a |-> Num(1), b |-> Num(2)]))
    /\ function[Merged].parameters = Some(Obj([b |-> Null, c |-> Num(3)]))
    /\ spec.v.parameters = Some(Obj([a |-> Num(1), c |-> Num(3)]))

(***************************************************************************)
(* C18: a specification specifications() returns has the name its provider *)
(* has in the registry, whatever name the process reported; the function   *)
(* merged into it is the one of that name, not the one of the name         *)
(* reported; the merge leaves the name alone.                              *)
(***************************************************************************)
C18_RegistryName ==
    spec.kind = "Ok" =>
       /\ spec.v.name = provider[spec_index].name
       /\ IF Merged = 0
          THEN /\ spec.v.description = report.v.description
               /\ spec.v.parameters = report.v.parameters
          ELSE /\ function[Merged].name = provider[spec_index].name
               /\ function[Merged].description.some =>
                     spec.v.description = function[Merged].description
               /\ ~function[Merged].description.some =>
                     spec.v.description = report.v.description

\* the process of f reported the name g, both names have a function, and
\* the description returned is the one of the function f
C18_Witness ==
    /\ spec.kind = "Ok"
    /\ spec_index = 1
    /\ report.v.name = <<"g">>
    /\ Len(function) = 2
    /\ spec.v.name = <<"f">>
    /\ spec.v.description = Some(<<"d">>)

(***************************************************************************)
(* C21: a reply that finishes with function_call returns a message whose   *)
(* content is the empty text, while the sink holds every content delta     *)
(* that came before: what was shown and what is recorded differ as soon as *)
(* there was such a delta.  A reply that finishes with stop or length      *)
(* returns a message with no function call, whatever name and argument     *)
(* deltas came before.                                                     *)
(***************************************************************************)
ReturnedCall == asm_state = "returned" /\ assistant_message.function_call.some

\* name or argument deltas were received
CallDeltasSeen == \E i \in 1..Len(seen) : seen[i].function_call.some

C21_ShownNotRecorded ==
    /\ ReturnedCall =>
          /\ stdout = ConcatContent(seen)
          /\ assistant_message.content = Some(<<>>)
    /\ ReturnedPlain =>
          /\ assistant_message.function_call = NoCall
          /\ assistant_message.name = NoText

\* a content delta was shown and the message of the function call has none
C21_Witness ==
    /\ ReturnedCall
    /\ ConcatContent(seen) # <<>>
    /\ stdout = ConcatContent(seen)
    /\ assistant_message.content = Some(<<>>)
    /\ assistant_message.function_call.name # <<>>

====
